---- MODULE Spec2Model ----
(***************************************************************************)
(* Funnel query pipeline of frontend/src/scenes/funnels/funnelLogic.ts:    *)
(* the kea logic `funnelLogic` (one instance), its `results` loader        *)
(* (loadResults), the poller pollFunnel, the breakdown aggregator          *)
(* aggregateBreakdownResult and the normalizer cleanFunnelParams; and the  *)
(* metrics FunnelBarGraph derives from the steps with calcPercentage,      *)
(* getReferenceStep and getBreakdownMaxIndex.                              *)
(*                                                                         *)
(* UiSpec, FrameSpec and WindowSpec add the actions components and the     *)
(* router dispatch (setFilters, clearFunnel, setConversionWindowInDays,    *)
(* loadConversionWindow) against a remote service that answers promptly;   *)
(* KeySpec follows three mounted logics in the keyed kea store.            *)
(*                                                                         *)
(* Time is a discrete-event clock in seconds: every pending event (a       *)
(* response of the remote service, the expiry of wait()) carries the time  *)
(* at which it happens, and the earliest pending event happens first.      *)
(*                                                                         *)
(* JavaScript values.  An object is a function from property names to      *)
(* values; a property that is absent is not in its DOMAIN.  The values of  *)
(* filter properties are written as the text of their JS literal           *)
(* ("undefined", "''", "'event'", "true", ...).                            *)
(***************************************************************************)
EXTENDS Integers, Sequences, FiniteSets, TLC

VARIABLES
    now,                    \* window.performance.now(), in seconds
    props,                  \* props of the logic: filters, cachedResults
    filters,                \* reducer `filters`
    filtersIsProps,         \* values.filters === props.filters (object identity)
    conversionWindowInDays, \* reducer `conversionWindowInDays`
    results,                \* loader value `results`
    resultsLoading,         \* loader flag `resultsLoading`
    stepsWithCount,         \* reducer `stepsWithCount`
    stepsWithCountLoading,  \* reducer `stepsWithCountLoading`
    people,                 \* loader value `people`
    peopleRequests,         \* loadPeople requests in flight
    calls,                  \* the invocations of the loadResults listener
    latest,                 \* kea breakpoint index: the newest invocation
    lastEnded,              \* the invocation that ended last (0: none yet)
    service,                \* how the remote service behaves: "any" or "prompt"
    lastDispatch,           \* the action a component or the router dispatched last
    windowCalls,            \* the invocations of the loadConversionWindow listener
    windowLatest,           \* kea breakpoint index of that listener
    store,                  \* kea store: the state kept under each key (KeySpec)
    target,                 \* the logic the last action was dispatched on
    aggIn,                  \* argument of aggregateBreakdownResult (AggSpec)
    aggOut,                 \* its result (AggSpec)
    graphIn,                \* props and values of FunnelBarGraph (GraphSpec)
    graphOut,               \* what FunnelBarGraph renders (GraphSpec)
    refIn,                  \* arguments of getReferenceStep (RefSpec)
    refOut,                 \* its result (RefSpec)
    cleanIn,                \* argument of cleanFunnelParams (CleanSpec)
    cleanOut,               \* its result, and the result cleaned again
    intervalPolicy          \* the correction table autocorrectInterval applies

uiVars == <<lastDispatch, windowCalls, windowLatest>>
keyVars == <<store, target>>
logicVars == <<now, props, filters, filtersIsProps, conversionWindowInDays,
               results, resultsLoading, stepsWithCount, stepsWithCountLoading,
               people, peopleRequests, calls, latest, lastEnded, service, uiVars>>
aggVars == <<aggIn, aggOut>>
graphVars == <<graphIn, graphOut>>
refVars == <<refIn, refOut>>
cleanVars == <<cleanIn, cleanOut, intervalPolicy>>
pureVars == <<aggVars, graphVars, refVars, cleanVars, keyVars>>
vars == <<logicVars, pureVars>>

(***************************************************************************)
(* Bounds of the model.                                                    *)
(***************************************************************************)
MaxCalls == 2        \* loadResults invocations per behaviour
MaxRequests == 3     \* requests of one poll that the model follows
MaxTime == 400       \* no event is scheduled later than this
MaxSegments == 2     \* segments of an aggregation input
MaxStages == 2       \* stages of one segment of an aggregation input
MaxDispatches == 2   \* actions dispatched by components and the router
MaxWindowCalls == 2  \* invocations of the loadConversionWindow listener
Latencies == {1, 100}    \* seconds the remote service takes to answer
CountValues == {0, 1, 5} \* step counts of aggregation inputs

(***************************************************************************)
(* Program constants.                                                      *)
(***************************************************************************)
SECONDS_TO_POLL == 180
WAIT_SECONDS == 1
DefaultConversionWindowInDays == 14
DebounceSeconds == 1   \* breakpoint(1000) of the loadConversionWindow listener

Null == -1   \* the JS value null of a numeric property

(***************************************************************************)
(* JavaScript objects.                                                     *)
(***************************************************************************)
EmptyObject == [k \in {} |-> "undefined"]

\* o.k, undefined when absent
Get(o, k) == IF k \in DOMAIN o THEN o[k] ELSE "undefined"

\* { ...f, ...g }
Spread(f, g) ==
    [k \in (DOMAIN f) \cup (DOMAIN g) |-> IF k \in DOMAIN g THEN g[k] ELSE f[k]]

\* const { <keys>, ...rest } = o
Rest(o, keys) == [k \in (DOMAIN o) \ keys |-> o[k]]

\* JS truthiness of a literal
Truthy(v) == v \notin {"undefined", "null", "''", "false", "0"}

(***************************************************************************)
(* Funnel steps and the values of `result.result`.                         *)
(***************************************************************************)
Step(order, count, peopleIds) ==
    [order |-> order, count |-> count, people |-> peopleIds,
     average_conversion_time |-> 0, breakdown |-> <<>>]

\* A value of result.result: `loading` is its .loading property, `steps` its
\* elements when it is a FunnelStep[], `segments` its elements when it is the
\* FunnelStep[][] of a breakdown response.
StepsValue(steps) == [loading |-> FALSE, steps |-> steps, segments |-> <<>>]
SegmentsValue(segs) == [loading |-> FALSE, steps |-> <<>>, segments |-> segs]
LoadingValue == [loading |-> TRUE, steps |-> <<>>, segments |-> <<>>]
EmptySteps == StepsValue(<<>>)

(***************************************************************************)
(* aggregateBreakdownResult (funnelLogic.ts 28-50).                        *)
(* The argument is { result: breakdownList, ...apiResponse }; apiResponse  *)
(* is carried as last_refresh.  `threw` is the TypeError of                *)
(* breakdownSteps[i].count on a segment shorter than the first.            *)
(***************************************************************************)
\* the total overwritten by each segment's count instead of added to
reduceCountLast(breakdownList, i, k) ==
    IF k = 0 THEN 0 ELSE breakdownList[k][i].count

RECURSIVE reduceCount(_, _, _)
reduceCount(breakdownList, i, k) ==
    IF k = 0 THEN 0
    ELSE reduceCount(breakdownList, i, k - 1) + breakdownList[k][i].count

RECURSIVE reduceBreakdown(_, _, _)
reduceBreakdown(breakdownList, i, k) ==
    IF k = 0 THEN <<>>
    ELSE Append(reduceBreakdown(breakdownList, i, k - 1), breakdownList[k][i])

\* breakdownList[0].map(...) without the guard `if (breakdownList.length)`
aggregateThrowsUnguarded(breakdownList) ==
    \/ Len(breakdownList) = 0
    \/ \E k \in 1..Len(breakdownList) : Len(breakdownList[k]) < Len(breakdownList[1])

aggregateThrows(breakdownList) ==
    /\ Len(breakdownList) > 0
    /\ \E k \in 1..Len(breakdownList) : Len(breakdownList[k]) < Len(breakdownList[1])

aggregateStep(breakdownList, i) ==
    [breakdownList[1][i] EXCEPT
        !.count = reduceCount(breakdownList, i, Len(breakdownList)),
        !.breakdown = reduceBreakdown(breakdownList, i, Len(breakdownList)),
        !.average_conversion_time = Null,
        !.people = <<>>]

aggregateBreakdownResult(response) ==
    LET breakdownList == response.result IN
    IF aggregateThrows(breakdownList)
    THEN [threw |-> TRUE, last_refresh |-> response.last_refresh, result |-> <<>>]
    ELSE [threw |-> FALSE,
          last_refresh |-> response.last_refresh,
          result |-> IF Len(breakdownList) > 0
                     THEN [i \in 1..Len(breakdownList[1]) |->
                              aggregateStep(breakdownList, i)]
                     ELSE <<>>]

\* TEST_BREAKDOWN_DATA.json, the fixed breakdown response that loadResults
\* aggregates (funnelLogic.ts 26, 176): two segments of three stages.
TEST_BREAKDOWN_DATA ==
    [last_refresh |-> "test",
     result |-> << <<Step(0, 10, <<>>), Step(1, 6, <<>>), Step(2, 2, <<>>)>>,
                   <<Step(0, 5, <<>>), Step(1, 3, <<>>), Step(2, 1, <<>>)>> >>]

(***************************************************************************)
(* cleanFunnelParams (funnelLogic.ts 81-98).                               *)
(***************************************************************************)
\* lib/utils autocorrectInterval is a pure function of date_from, date_to and
\* the requested interval whose correction table is not part of these
\* sources.  intervalPolicy is the row of that table for the date range of
\* the filters at hand: any function from the requested interval (undefined
\* when none is requested) to an interval.  cleanFunnelParams passes
\* date_from and date_to through, so cleaning its own output consults the
\* same row.
Intervals == {"'minute'", "'hour'", "'day'"}
RequestedIntervals == Intervals \cup {"undefined"}
IntervalPolicies == [RequestedIntervals -> Intervals]

\* the requested interval kept, 'day' when none is requested
DefaultIntervalPolicy ==
    [r \in RequestedIntervals |-> IF r = "undefined" THEN "'day'" ELSE r]

autocorrectInterval(f) ==
    intervalPolicy[IF Get(f, "interval") \in Intervals
                   THEN f["interval"]
                   ELSE "undefined"]

\* ...(o.k ? { k: o.k } : {})
SpreadIfTruthy(o, k) ==
    IF Truthy(Get(o, k)) THEN [x \in {k} |-> o[k]] ELSE EmptyObject

\* the other property of the pair breakdown, breakdown_type read instead
OrUndefinedOfOther(o, k) ==
    LET other == IF k = "breakdown" THEN "breakdown_type" ELSE "breakdown"
    IN  IF Truthy(Get(o, other)) THEN o[other] ELSE "undefined"

\* filters.k || undefined
OrUndefined(o, k) == IF Truthy(Get(o, k)) THEN o[k] ELSE "undefined"

CleanedKeys ==
    <<"date_from", "date_to", "actions", "events", "display", "interval",
      "properties", "filter_test_accounts", "funnel_step">>

RECURSIVE spreadCleaned(_, _)
spreadCleaned(f, n) ==
    IF n = 0 THEN f
    ELSE Spread(spreadCleaned(f, n - 1), SpreadIfTruthy(f, CleanedKeys[n]))

cleanFunnelParams(f) ==
    Spread(spreadCleaned(f, Len(CleanedKeys)),
           [interval |-> autocorrectInterval(f),
            breakdown |-> OrUndefined(f, "breakdown"),
            breakdown_type |-> OrUndefined(f, "breakdown_type"),
            insight |-> "'FUNNELS'"])

\* selector clickhouseFeatures (funnelLogic.ts 272-279): `return true // TEMP`
clickhouseFeatures == TRUE

(***************************************************************************)
(* funnelUtils: calcPercentage, getBreakdownMaxIndex, getReferenceStep     *)
(* (PropertyFilterButton.tsx 225-250, 516-529).                            *)
(*                                                                         *)
(* A JS number that is the result of a division is kept exactly, as the    *)
(* fraction num/den with den > 0, or is NaN, Infinity or -Infinity.  An    *)
(* optional value (a parameter or a result that may be undefined) is       *)
(* [defined, value].  Indexes are the 0-based indexes of the code; the     *)
(* element steps[j] of the code is steps[j + 1] here.                      *)
(***************************************************************************)
Finite(num, den) == [kind |-> "finite", num |-> num, den |-> den]
NaN == [kind |-> "NaN", num |-> 0, den |-> 1]
Infinity == [kind |-> "Infinity", num |-> 0, den |-> 1]
NegInfinity == [kind |-> "-Infinity", num |-> 0, den |-> 1]
Zero == Finite(0, 1)

\* n / d
Divide(n, d) ==
    IF d > 0 THEN Finite(n, d)
    ELSE IF d < 0 THEN Finite(0 - n, 0 - d)
    ELSE IF n = 0 THEN NaN
    ELSE IF n > 0 THEN Infinity
    ELSE NegInfinity

\* x * c for a number c > 0
Times(x, c) == IF x.kind = "finite" THEN Finite(x.num * c, x.den) ELSE x

\* c - x
Minus(c, x) ==
    IF x.kind = "finite" THEN Finite(c * x.den - x.num, x.den)
    ELSE IF x.kind = "Infinity" THEN NegInfinity
    ELSE IF x.kind = "-Infinity" THEN Infinity
    ELSE NaN

\* x || 0: 0 and NaN are the falsy numbers
OrZero(x) ==
    IF x.kind = "NaN" \/ (x.kind = "finite" /\ x.num = 0) THEN Zero ELSE x

calcPercentage(numerator, denominator) ==
    OrZero(Times(Divide(numerator, denominator), 100))

Some(v) == [defined |-> TRUE, value |-> v]
NoIndex == [defined |-> FALSE, value |-> 0]

\* step.breakdown, undefined when the step has no such property
breakdownOf(step) ==
    IF "breakdown" \in DOMAIN step
    THEN [defined |-> TRUE, value |-> step.breakdown]
    ELSE [defined |-> FALSE, value |-> <<>>]

isNonZero(entry) == entry.count # 0

nonZeroCounts(breakdown) ==
    SelectSeq([i \in 1..Len(breakdown) |->
                  [count |-> breakdown[i].count, index |-> i - 1]],
              isNonZero)

firstNonZero(entries) == entries[1]

lastNonZero(entries) == entries[Len(entries)]

getBreakdownMaxIndex(breakdown) ==
    IF ~breakdown.defined THEN NoIndex
    ELSE IF Len(nonZeroCounts(breakdown.value)) = 0 THEN NoIndex
    ELSE Some(lastNonZero(nonZeroCounts(breakdown.value)).index)

\* the first step whatever the reference and the index
getReferenceStepTotal(steps, stepReference, index) == steps[1]

getReferenceStep(steps, stepReference, index) ==
    IF ~index.defined \/ index.value = 0 \/ index.value <= 0 THEN steps[1]
    ELSE IF stepReference = "previous" THEN steps[(index.value - 1) + 1]
    ELSE steps[1]

(***************************************************************************)
(* FunnelBarGraph (FunnelBarGraph.tsx 280-460): the metrics of each step   *)
(* and of each slice of its breakdown.                                     *)
(***************************************************************************)
\* [...stepsParam].sort((a, b) => a.order - b.order), a stable sort
insertByOrder(sorted, step) ==
    LET n == Cardinality({j \in 1..Len(sorted) : sorted[j].order <= step.order})
    IN  SubSeq(sorted, 1, n) \o <<step>> \o SubSeq(sorted, n + 1, Len(sorted))

RECURSIVE sortByOrder(_, _)
sortByOrder(steps, n) ==
    IF n = 0 THEN <<>> ELSE insertByOrder(sortByOrder(steps, n - 1), steps[n])

\* visible: d > 0, without the test of the step's order
dropoffVisibleAnyOrder(step, dropoffCount) == dropoffCount > 0

\* visible: step.order !== 0 && dropoffCount > 0
dropoffVisible(step, dropoffCount) == step.order # 0 /\ dropoffCount > 0

\* the count of the whole previous step instead of that of its slice
slicePreviousCountOfStep(previousStep, index) == previousStep.count

\* previousStep?.breakdown?.[index]?.count ?? 0
slicePreviousCount(previousStep, index) ==
    LET breakdown == breakdownOf(previousStep)
    IN  IF breakdown.defined /\ index + 1 <= Len(breakdown.value)
        THEN breakdown.value[index + 1].count
        ELSE 0

\* the Bar of the slice `index` of the breakdown of `step`
sliceBar(step, basisStep, previousStep, firstStep, index) ==
    LET breakdown == step.breakdown[index + 1]
        previousCount == slicePreviousCount(previousStep, index)
        dropoffCount == previousCount - breakdown.count
        conversionRateFromPrevious == calcPercentage(breakdown.count, previousCount)
    IN  [count |-> breakdown.count,
         percentage |-> calcPercentage(breakdown.count, basisStep.count),
         previousCount |-> previousCount,
         dropoffCount |-> dropoffCount,
         totalConversionRate |-> calcPercentage(breakdown.count, firstStep.count),
         conversionRateFromPrevious |-> conversionRateFromPrevious,
         conversionVisible |-> step.order # 0,
         dropoffRateFromPrevious |-> Minus(100, conversionRateFromPrevious),
         dropoffVisible |-> dropoffVisible(step, dropoffCount)]

\* the Bar of a step without breakdown
stepBar(step, basisStep, previousStep, firstStep, dropoffCount) ==
    [percentage |-> calcPercentage(step.count, basisStep.count),
     totalConversionRate |-> calcPercentage(step.count, firstStep.count),
     conversionRateFromPrevious |-> calcPercentage(step.count, previousStep.count),
     conversionVisible |-> step.order # 0,
     dropoffRateFromPrevious |->
         Minus(100, calcPercentage(step.count, previousStep.count)),
     dropoffVisible |-> dropoffVisible(step, dropoffCount)]

\* the body of steps.map((step, i) => ...)
stepRow(steps, stepReference, i) ==
    LET step == steps[i + 1]
        firstStep == getReferenceStep(steps, "total", NoIndex)
        basisStep == getReferenceStep(steps, stepReference, Some(i))
        previousStep == getReferenceStep(steps, "previous", Some(i))
        previousCount == previousStep.count
        dropoffCount == previousCount - step.count
        breakdown == breakdownOf(step)
        hasSlices == breakdown.defined /\ Len(breakdown.value) > 0
    IN  [order |-> step.order,
         count |-> step.count,
         basisCount |-> basisStep.count,
         previousCount |-> previousCount,
         dropoffCount |-> dropoffCount,
         breakdownMaxIndex |-> getBreakdownMaxIndex(breakdown),
         slices |-> IF hasSlices
                    THEN [k \in 1..Len(breakdown.value) |->
                             sliceBar(step, basisStep, previousStep, firstStep, k - 1)]
                    ELSE <<>>,
         barRendered |-> ~hasSlices,
         bar |-> stepBar(step, basisStep, previousStep, firstStep, dropoffCount),
         footerDropoff |-> i > 0 /\ step.order > 0 /\ dropoffCount > 0,
         footerDropoffRate |->
             Minus(100, calcPercentage(step.count, previousStep.count))]

FunnelBarGraph(stepsParam, stepReference) ==
    LET steps == sortByOrder(stepsParam, Len(stepsParam))
    IN  [rendered |-> TRUE,
         steps |-> steps,
         rows |-> [r \in 1..Len(steps) |-> stepRow(steps, stepReference, r - 1)]]

(***************************************************************************)
(* The remote service and the props the logic is built with.               *)
(***************************************************************************)
RemoteSteps == <<Step(0, 10, <<"p1">>), Step(1, 6, <<>>)>>
RemoteSegments ==
    << <<Step(0, 4, <<>>), Step(1, 2, <<>>)>>, <<Step(0, 3, <<>>), Step(1, 3, <<>>)>> >>
CachedSteps == <<Step(0, 7, <<>>)>>
PersonsResults == <<"p1">>

\* what the service may put in result.result for a request with this body
RemoteValues(body) ==
    IF Truthy(Get(body, "breakdown"))
    THEN {LoadingValue, SegmentsValue(RemoteSegments)}
    ELSE {LoadingValue, EmptySteps, StepsValue(RemoteSteps)}

\* the responses api.create may resolve with, and its rejection (error)
Responses(body) ==
    [error : {FALSE}, loading : BOOLEAN, result : RemoteValues(body)]
        \cup {[error |-> TRUE, loading |-> FALSE, result |-> EmptySteps]}

\* a prompt service answers after one second, with an error, with a result
\* that is still loading or with the steps
PromptLatencies == {1}
PromptResponses(body) ==
    {r \in Responses(body) :
        r.error \/ (~r.loading /\ r.result # EmptySteps)}

ServiceLatencies == IF service = "prompt" THEN PromptLatencies ELSE Latencies
ServiceResponses(body) ==
    IF service = "prompt" THEN PromptResponses(body) ELSE Responses(body)

NoResponse == [error |-> FALSE, loading |-> FALSE, result |-> EmptySteps]

PropsFilters ==
    {EmptyObject, [breakdown |-> "'browser'", breakdown_type |-> "'event'"]}

PropsCachedResults ==
    {[defined |-> FALSE, value |-> EmptySteps],
     [defined |-> TRUE, value |-> StepsValue(CachedSteps)]}

(***************************************************************************)
(* One invocation of the loadResults listener.                             *)
(***************************************************************************)
IdleCall ==
    [pc |-> "idle",          \* idle, request, wait, done, cut
     refresh |-> FALSE,      \* argument of loadResults
     params |-> EmptyObject,
     reqs |-> <<>>,          \* requests issued: [refresh, body]
     resps |-> <<>>,         \* responses received: [error, loading]
     firstRequestAt |-> 0,   \* time of the first request
     requestAt |-> 0,        \* time of the newest request
     responseAt |-> 0,       \* time of the newest response
     result |-> NoResponse,  \* pollFunnel's `result`
     start |-> 0,            \* pollFunnel's `start`
     due |-> 0,              \* time of the pending event
     outcome |-> "none",     \* cached, success, error, timeout, breakpoint, throw
     returned |-> EmptySteps,
     endQuery |-> "none",    \* insightLogic.actions.endQuery: ok, error
     reported |-> "none",    \* reportFunnelCalculated success flag
     superseded |-> FALSE]   \* a newer invocation started while this one polled

Calls == 1..MaxCalls

Pending(k) == k.pc \in {"request", "wait"}

\* the invocations as a newer one finds them
supersede(cs) == [c \in Calls |-> [cs[c] EXCEPT !.superseded = @ \/ Pending(cs[c])]]

\* the invocations of the loadConversionWindow listener (321-325)
WindowCalls == 1..MaxWindowCalls

\* no pending event, of a poll or of a debounce, is due before t
NothingDueBefore(t) ==
    /\ \A d \in Calls : Pending(calls[d]) => t <= calls[d].due
    /\ \A w \in WindowCalls : windowCalls[w].pc = "wait" => t <= windowCalls[w].due

\* the pending event of c is the earliest one
Earliest(c) ==
    /\ Pending(calls[c])
    /\ NothingDueBefore(calls[c].due)

\* the variables of AggSpec, GraphSpec, RefSpec and CleanSpec where unused
AggIdle ==
    /\ aggIn = TEST_BREAKDOWN_DATA
    /\ aggOut = [computed |-> FALSE, value |-> aggregateBreakdownResult(TEST_BREAKDOWN_DATA)]

GraphIdle ==
    /\ graphIn = [steps |-> <<>>, stepReference |-> "total"]
    /\ graphOut = [rendered |-> FALSE, steps |-> <<>>, rows |-> <<>>]

RefIdle ==
    /\ refIn = [steps |-> <<Step(0, 0, <<>>)>>, stepReference |-> "total", index |-> NoIndex]
    /\ refOut = [computed |-> FALSE, value |-> Step(0, 0, <<>>)]

CleanIdle ==
    /\ cleanIn = EmptyObject
    /\ cleanOut = [computed |-> FALSE, value |-> EmptyObject, again |-> EmptyObject]
    /\ intervalPolicy = DefaultIntervalPolicy

\* nothing was dispatched from the outside, no debounce is running
NoDispatch ==
    [seq |-> 0, action |-> "none", refresh |-> FALSE, days |-> Zero,
     call |-> 0, at |-> 0]

IdleWindowCall == [pc |-> "idle", days |-> Zero, due |-> 0]

\* props.dashboardItemId of the logics that are mounted
DashboardItemIds == {"undefined", "1", "2"}

\* one key for every logic
keyShared(dashboardItemId) == "'some_funnel'"

\* 104-106: key: (props) => props.dashboardItemId || 'some_funnel'
key(dashboardItemId) ==
    IF Truthy(dashboardItemId) THEN dashboardItemId ELSE "'some_funnel'"

Keys == {key(l) : l \in DashboardItemIds}

\* the defaults of filters (197, props.filters undefined), results and
\* stepsWithCount (205)
IdleInstance ==
    [filters |-> EmptyObject, results |-> EmptySteps, stepsWithCount |-> EmptySteps]

KeyIdle ==
    /\ store = [k \in Keys |-> IdleInstance]
    /\ target = "undefined"

UiIdle ==
    /\ lastDispatch = NoDispatch
    /\ windowCalls = [w \in WindowCalls |-> IdleWindowCall]
    /\ windowLatest = 0
    /\ KeyIdle

InitWith(s) ==
    /\ now = 0
    /\ service = s
    /\ props \in [filters : PropsFilters, cachedResults : PropsCachedResults]
    /\ filters = props.filters
    /\ filtersIsProps = TRUE
    /\ conversionWindowInDays = DefaultConversionWindowInDays
    /\ results = EmptySteps
    /\ resultsLoading = FALSE
    /\ stepsWithCount = EmptySteps
    /\ stepsWithCountLoading = FALSE
    /\ people = <<>>
    /\ peopleRequests = 0
    /\ calls = [c \in Calls |-> IdleCall]
    /\ latest = 0
    /\ lastEnded = 0
    /\ UiIdle
    /\ AggIdle
    /\ GraphIdle
    /\ RefIdle
    /\ CleanIdle

Init == InitWith("any")

(***************************************************************************)
(* Reducers and listeners run by the loader.                               *)
(***************************************************************************)
\* action setSteps: reducer stepsWithCount (208) and listener setSteps (288-293)
setSteps(steps) ==
    /\ stepsWithCount' = steps
    /\ peopleRequests' =
          IF Len(steps.steps) > 0 /\ Len(steps.steps[1].people) > 0
          THEN peopleRequests + 1
          ELSE peopleRequests
    /\ stepsWithCountLoading' = FALSE

\* kea-loaders: the value the loader function returns is dispatched as
\* loadResultsSuccess, which stores it in `results`
loadResultsSuccess(value) ==
    /\ results' = value
    /\ resultsLoading' = FALSE

\* kea-loaders: an exception that leaves the loader function is dispatched as
\* loadResultsFailure, which keeps `results`
loadResultsFailure ==
    /\ results' = results
    /\ resultsLoading' = FALSE

\* loadResults 161-170: the catch block around pollFunnel
catchError(c, k, outcome) ==
    /\ calls' = [calls EXCEPT ![c] =
                    [k EXCEPT !.pc = "done", !.outcome = outcome,
                              !.endQuery = "error", !.reported = "false",
                              !.returned = EmptySteps]]
    /\ loadResultsSuccess(EmptySteps)
    /\ UNCHANGED <<stepsWithCount, stepsWithCountLoading, peopleRequests>>

\* loadResults 160, 172-181: pollFunnel returned k.result
afterPoll(c, k) ==
    IF c # latest
    THEN \* breakpoint() throws: the listener ends, nothing is dispatched
         /\ calls' = [calls EXCEPT ![c] =
                         [k EXCEPT !.pc = "done", !.outcome = "breakpoint",
                                   !.reported = "true"]]
         /\ UNCHANGED <<results, resultsLoading, stepsWithCount,
                        stepsWithCountLoading, peopleRequests>>
    ELSE IF Truthy(Get(k.params, "breakdown")) /\ clickhouseFeatures
    THEN LET aggregatedResult == aggregateBreakdownResult(TEST_BREAKDOWN_DATA) IN
         IF aggregatedResult.threw
         THEN /\ calls' = [calls EXCEPT ![c] =
                              [k EXCEPT !.pc = "done", !.outcome = "throw",
                                        !.endQuery = "ok", !.reported = "true"]]
              /\ loadResultsFailure
              /\ UNCHANGED <<stepsWithCount, stepsWithCountLoading, peopleRequests>>
         ELSE /\ calls' = [calls EXCEPT ![c] =
                              [k EXCEPT !.pc = "done", !.outcome = "success",
                                        !.endQuery = "ok", !.reported = "true",
                                        !.returned = StepsValue(aggregatedResult.result)]]
              /\ setSteps(StepsValue(aggregatedResult.result))
              /\ loadResultsSuccess(StepsValue(aggregatedResult.result))
    ELSE /\ calls' = [calls EXCEPT ![c] =
                         [k EXCEPT !.pc = "done", !.outcome = "success",
                                   !.endQuery = "ok", !.reported = "true",
                                   !.returned = k.result.result]]
         /\ setSteps(k.result.result)
         /\ loadResultsSuccess(k.result.result)

(***************************************************************************)
(* pollFunnel (funnelLogic.ts 66-79).                                      *)
(***************************************************************************)
\* 67: const { refresh, ...bodyParams } = params
bodyParams(params) == Rest(params, {"refresh"})

\* 68: api.create('api/insight/funnel/?' + (refresh ? 'refresh=true' : ''), bodyParams)
firstRequest(params) ==
    [refresh |-> Truthy(Get(params, "refresh")), body |-> bodyParams(params)]

\* a retry sent to the URL of the first request
retryRequestWithRefresh(params) == firstRequest(params)

\* 72: api.create('api/insight/funnel', bodyParams)
retryRequest(params) ==
    [refresh |-> FALSE, body |-> bodyParams(params)]

\* the loop condition without its test of the loading flag
stillPollingUntilTimeout(k, t) == (t - k.start) < SECONDS_TO_POLL

\* 70: the loop condition, evaluated at time t
stillPolling(k, t) ==
    k.result.result.loading /\ (t - k.start) < SECONDS_TO_POLL

\* 75: if (result.loading)
timedOut(k) == k.result.loading

\* 70-78 at time t, `result` just assigned
pollLoop(c, k, t) ==
    IF stillPolling(k, t)
    THEN /\ calls' = [calls EXCEPT ![c] =
                         IF Len(k.reqs) < MaxRequests /\ t + WAIT_SECONDS <= MaxTime
                         THEN [k EXCEPT !.pc = "wait", !.due = t + WAIT_SECONDS]
                         ELSE [k EXCEPT !.pc = "cut"]]
         /\ UNCHANGED <<results, resultsLoading, stepsWithCount,
                        stepsWithCountLoading, peopleRequests>>
    ELSE IF timedOut(k)
    THEN catchError(c, k, "timeout")
    ELSE afterPoll(c, k)

(***************************************************************************)
(* Actions.                                                                *)
(***************************************************************************)
\* loadResults 134-159 up to the first await of pollFunnel
loadResultsParamsOf(f, w, refresh) ==
    LET from_dashboard == Get(f, "from_dashboard")
        cleanedParams == cleanFunnelParams(f)
    IN  Spread(Spread(Spread(IF refresh THEN [refresh |-> "true"] ELSE EmptyObject,
                             IF Truthy(from_dashboard)
                             THEN [from_dashboard |-> from_dashboard]
                             ELSE EmptyObject),
                      cleanedParams),
               [funnel_window_days |-> w])

loadResultsParams(refresh) ==
    loadResultsParamsOf(filters, conversionWindowInDays, refresh)

\* the loader function of `results` (134-182) up to its first await, run on
\* values.filters = f (=== props.filters iff isProps) and
\* values.conversionWindowInDays = w at the time t
runLoadResults(refresh, f, isProps, w, t) ==
    /\ latest < MaxCalls
    /\ latest' = latest + 1
    /\ IF props.cachedResults.defined /\ ~refresh /\ isProps
       THEN /\ calls' = [supersede(calls) EXCEPT ![latest + 1] =
                            [@ EXCEPT !.pc = "done", !.refresh = refresh,
                                      !.outcome = "cached",
                                      !.returned = props.cachedResults.value]]
            /\ loadResultsSuccess(props.cachedResults.value)
            /\ lastEnded' = latest + 1
       ELSE /\ \E d \in ServiceLatencies :
                 /\ t + d <= MaxTime
                 /\ calls' = [supersede(calls) EXCEPT ![latest + 1] =
                                 [@ EXCEPT !.pc = "request", !.refresh = refresh,
                                           !.params = loadResultsParamsOf(f, w, refresh),
                                           !.reqs = <<firstRequest(loadResultsParamsOf(f, w, refresh))>>,
                                           !.firstRequestAt = t,
                                           !.requestAt = t,
                                           !.due = t + d]]
            /\ resultsLoading' = TRUE
            /\ UNCHANGED <<results, lastEnded>>
    /\ stepsWithCountLoading' = TRUE

\* action loadResults(refresh) dispatched on the current values
loadResults(refresh) ==
    /\ runLoadResults(refresh, filters, filtersIsProps, conversionWindowInDays, now)
    /\ UNCHANGED <<now, props, filters, filtersIsProps, conversionWindowInDays,
                   stepsWithCount, people, peopleRequests, service, pureVars, uiVars>>

\* api.create resolves for invocation c
apiResolve(c) ==
    /\ calls[c].pc = "request"
    /\ Earliest(c)
    /\ now' = calls[c].due
    /\ \E r \in ServiceResponses(calls[c].reqs[Len(calls[c].reqs)].body) :
          /\ ~r.error
          /\ pollLoop(c,
                      [calls[c] EXCEPT
                          !.result = r,
                          !.resps = Append(@, [error |-> FALSE,
                                               loading |-> r.result.loading]),
                          !.responseAt = calls[c].due,
                          !.start = IF Len(calls[c].resps) = 0 THEN calls[c].due ELSE @],
                      calls[c].due)
    /\ lastEnded' = IF calls'[c].pc = "done" THEN c ELSE lastEnded
    /\ UNCHANGED <<props, filters, filtersIsProps, conversionWindowInDays,
                   people, latest, service, pureVars, uiVars>>

\* a rejection caught inside the poll loop and retried after wait()
apiRejectRetried(c) ==
    /\ calls[c].pc = "request"
    /\ Earliest(c)
    /\ now' = calls[c].due
    /\ calls' = [calls EXCEPT ![c] =
                    [@ EXCEPT !.pc = IF Len(calls[c].reqs) < MaxRequests
                                        /\ calls[c].due + WAIT_SECONDS <= MaxTime
                                     THEN "wait" ELSE "cut",
                              !.resps = Append(@, [error |-> TRUE, loading |-> FALSE]),
                              !.responseAt = calls[c].due,
                              !.due = calls[c].due + WAIT_SECONDS]]
    /\ UNCHANGED <<props, filters, filtersIsProps, conversionWindowInDays,
                   results, resultsLoading, stepsWithCount, stepsWithCountLoading,
                   people, peopleRequests, latest, lastEnded, service, pureVars, uiVars>>

\* api.create rejects for invocation c: the remote service reports an error
apiReject(c) ==
    /\ calls[c].pc = "request"
    /\ Earliest(c)
    /\ now' = calls[c].due
    /\ catchError(c,
                  [calls[c] EXCEPT
                      !.resps = Append(@, [error |-> TRUE, loading |-> FALSE]),
                      !.responseAt = calls[c].due],
                  "error")
    /\ lastEnded' = c
    /\ UNCHANGED <<props, filters, filtersIsProps, conversionWindowInDays,
                   people, latest, service, pureVars, uiVars>>

\* a retry whose body is built from the values of the moment
waitDoneCurrentValues(c) ==
    /\ calls[c].pc = "wait"
    /\ Earliest(c)
    /\ now' = calls[c].due
    /\ \E d \in ServiceLatencies :
          /\ calls[c].due + d <= MaxTime
          /\ calls' = [calls EXCEPT ![c] =
                          [@ EXCEPT !.pc = "request",
                                    !.reqs = Append(@, retryRequest(
                                        loadResultsParamsOf(filters,
                                                            conversionWindowInDays,
                                                            FALSE))),
                                    !.requestAt = calls[c].due,
                                    !.due = calls[c].due + d]]
    /\ UNCHANGED <<props, filters, filtersIsProps, conversionWindowInDays,
                   results, resultsLoading, stepsWithCount, stepsWithCountLoading,
                   people, peopleRequests, latest, lastEnded, service, pureVars, uiVars>>

\* 71-72: wait() is over, the retry request is issued
waitDone(c) ==
    /\ calls[c].pc = "wait"
    /\ Earliest(c)
    /\ now' = calls[c].due
    /\ \E d \in ServiceLatencies :
          /\ calls[c].due + d <= MaxTime
          /\ calls' = [calls EXCEPT ![c] =
                          [@ EXCEPT !.pc = "request",
                                    !.reqs = Append(@, retryRequest(calls[c].params)),
                                    !.requestAt = calls[c].due,
                                    !.due = calls[c].due + d]]
    /\ UNCHANGED <<props, filters, filtersIsProps, conversionWindowInDays,
                   results, resultsLoading, stepsWithCount, stepsWithCountLoading,
                   people, peopleRequests, latest, lastEnded, service, pureVars, uiVars>>

\* loader people 185-191: api.get of loadPeople resolves or rejects
loadPeopleDone(ok) ==
    /\ peopleRequests > 0
    /\ peopleRequests' = peopleRequests - 1
    /\ people' = IF ok THEN PersonsResults ELSE people
    /\ UNCHANGED <<now, props, filters, filtersIsProps, conversionWindowInDays,
                   results, resultsLoading, stepsWithCount, stepsWithCountLoading,
                   calls, latest, lastEnded, service, pureVars, uiVars>>

(***************************************************************************)
(* The actions components and the router dispatch (funnelLogic.ts 108-123, *)
(* reducers 195-228, listeners 294-325).                                   *)
(***************************************************************************)
\* the dispatch is recorded: the action, its refresh or days argument, the
\* newest loadResults invocation once its listeners have run, and the time
dispatched(action, refresh, days, call) ==
    /\ lastDispatch.seq < MaxDispatches
    /\ lastDispatch' = [seq |-> lastDispatch.seq + 1, action |-> action,
                        refresh |-> refresh, days |-> days, call |-> call,
                        at |-> now]

\* reducer filters.setFilters (199-200)
setFiltersReducer(state, payload, mergeWithExisting) ==
    IF mergeWithExisting THEN Spread(state, payload) ELSE payload

\* reducer filters.clearFunnel (201)
clearFunnelReducer(state) == [new_entity |-> Get(state, "new_entity")]

\* action setFilters(filters, refresh, mergeWithExisting): reducers 199-200
\* and 209, then listener 294-304, whose loadResults() takes no argument
setFilters(payload, refresh, mergeWithExisting) ==
    /\ dispatched("setFilters", refresh, Zero, latest + 1)
    /\ filters' = setFiltersReducer(filters, payload, mergeWithExisting)
    /\ filtersIsProps' = FALSE
    /\ stepsWithCount' = EmptySteps
    /\ refresh \/ clickhouseFeatures
    /\ runLoadResults(FALSE, setFiltersReducer(filters, payload, mergeWithExisting),
                      FALSE, conversionWindowInDays, now)
    /\ UNCHANGED <<now, props, conversionWindowInDays, people, peopleRequests,
                   windowCalls, windowLatest, service, pureVars>>

\* action clearFunnel: reducers 201, 207, 219; listener 313-315 only tells
\* insightLogic
clearFunnel ==
    /\ dispatched("clearFunnel", FALSE, Zero, latest)
    /\ filters' = clearFunnelReducer(filters)
    /\ filtersIsProps' = FALSE
    /\ stepsWithCount' = EmptySteps
    /\ people' = <<>>
    /\ UNCHANGED <<now, props, conversionWindowInDays, results, resultsLoading,
                   stepsWithCountLoading, peopleRequests, calls, latest,
                   lastEnded, windowCalls, windowLatest, service, pureVars>>

\* days >= 1 && days <= 365, for a JS number
inWindowRange(days) ==
    /\ days.kind = "finite"
    /\ days.num >= days.den
    /\ days.num <= 365 * days.den

\* Math.round of a finite JS number: the nearest integer, halves upwards
MathRound(days) == (2 * days.num + days.den) \div (2 * days.den)

\* reducer conversionWindowInDays without the range test
conversionWindowReducerUnguarded(state, days) ==
    IF days.kind = "finite" THEN MathRound(days) ELSE state

\* reducer conversionWindowInDays.setConversionWindowInDays (224-226)
conversionWindowReducer(state, days) ==
    IF inWindowRange(days) THEN MathRound(days) ELSE state

\* action setConversionWindowInDays(days): the reducer, no listener
setConversionWindowInDays(days) ==
    /\ dispatched("setConversionWindowInDays", FALSE, days, latest)
    /\ conversionWindowInDays' = conversionWindowReducer(conversionWindowInDays, days)
    /\ UNCHANGED <<now, props, filters, filtersIsProps, results, resultsLoading,
                   stepsWithCount, stepsWithCountLoading, people, peopleRequests,
                   calls, latest, lastEnded, windowCalls, windowLatest, service, pureVars>>

\* action loadConversionWindow(days), listener 321-322: await breakpoint(1000)
loadConversionWindow(days) ==
    /\ dispatched("loadConversionWindow", FALSE, days, latest)
    /\ windowLatest < MaxWindowCalls
    /\ now + DebounceSeconds <= MaxTime
    /\ windowLatest' = windowLatest + 1
    /\ windowCalls' = [windowCalls EXCEPT ![windowLatest + 1] =
                          [pc |-> "wait", days |-> days, due |-> now + DebounceSeconds]]
    /\ UNCHANGED <<now, props, filters, filtersIsProps, conversionWindowInDays,
                   results, resultsLoading, stepsWithCount, stepsWithCountLoading,
                   people, peopleRequests, calls, latest, lastEnded, service, pureVars>>

\* a debounce that is over lets every invocation through
windowDoneUndebounced(w) ==
    /\ windowCalls[w].pc = "wait"
    /\ NothingDueBefore(windowCalls[w].due)
    /\ now' = windowCalls[w].due
    /\ windowCalls' = [windowCalls EXCEPT ![w].pc = "done"]
    /\ conversionWindowInDays' =
           conversionWindowReducer(conversionWindowInDays, windowCalls[w].days)
    /\ runLoadResults(FALSE, filters, filtersIsProps,
                      conversionWindowReducer(conversionWindowInDays, windowCalls[w].days),
                      windowCalls[w].due)
    /\ UNCHANGED <<props, filters, filtersIsProps, stepsWithCount, people,
                   peopleRequests, lastDispatch, windowLatest, service, pureVars>>

\* listener loadConversionWindow 322-324: the debounce of invocation w is
\* over; breakpoint throws when a newer invocation exists, otherwise
\* setConversionWindowInDays(days) and loadResults() are dispatched
windowDone(w) ==
    /\ windowCalls[w].pc = "wait"
    /\ NothingDueBefore(windowCalls[w].due)
    /\ now' = windowCalls[w].due
    /\ IF w # windowLatest
       THEN /\ windowCalls' = [windowCalls EXCEPT ![w].pc = "cut"]
            /\ UNCHANGED <<conversionWindowInDays, results, resultsLoading,
                           stepsWithCountLoading, calls, latest, lastEnded>>
       ELSE /\ windowCalls' = [windowCalls EXCEPT ![w].pc = "done"]
            /\ conversionWindowInDays' =
                   conversionWindowReducer(conversionWindowInDays, windowCalls[w].days)
            /\ runLoadResults(FALSE, filters, filtersIsProps,
                              conversionWindowReducer(conversionWindowInDays,
                                                      windowCalls[w].days),
                              windowCalls[w].due)
    /\ UNCHANGED <<props, filters, filtersIsProps, stepsWithCount, people,
                   peopleRequests, lastDispatch, windowLatest, service, pureVars>>

(***************************************************************************)
(* Several mounted logics: kea keeps the state of a keyed logic under its  *)
(* key and hands an action dispatched on a logic to the reducers and       *)
(* listeners of that key only (funnelLogic.ts 103-106).                    *)
(***************************************************************************)
\* the action dispatched on logic l leaves its instance as inst
keyed(l, inst) ==
    /\ store' = [store EXCEPT ![key(l)] = inst]
    /\ target' = l
    /\ UNCHANGED <<logicVars, aggVars, graphVars, refVars, cleanVars>>

\* setFilters on l: reducers 199-200, 209
setFiltersOn(l, payload, mergeWithExisting) ==
    keyed(l, [store[key(l)] EXCEPT
                 !.filters = setFiltersReducer(@, payload, mergeWithExisting),
                 !.stepsWithCount = EmptySteps])

\* 352-356, 376-392: urlToAction of logic m for a changed URL; a logic of a
\* dashboard item returns at once, another one may dispatch
\* setFilters(cleanedParams, true, false)
urlToAction(m, inst, differs, searchParams) ==
    IF Truthy(m) \/ ~differs
    THEN inst
    ELSE [inst EXCEPT !.filters = setFiltersReducer(@, cleanFunnelParams(searchParams),
                                                    FALSE),
                      !.stepsWithCount = EmptySteps]

\* the router hands the URL to every mounted logic; those of one key share
\* the instance
routed(st, differs, searchParams) ==
    [k \in Keys |->
        IF \E m \in DashboardItemIds : key(m) = k /\ ~Truthy(m)
        THEN urlToAction("undefined", st[k], differs, searchParams)
        ELSE st[k]]

\* actionToUrl 340-351: setSteps and clearFunnel of a logic that is no
\* dashboard item change the URL
actionToUrl(l, st, differs, searchParams) ==
    IF Truthy(l) THEN st ELSE routed(st, differs, searchParams)

\* loadResults on l, run to its end: with the steps (setSteps 177-181), in
\* the catch block (170: return []) or with an aggregation error
\* (loadResultsFailure keeps results)
loadResultsOn(l, outcome, differs) ==
    /\ target' = l
    /\ store' =
          IF outcome = "success"
          THEN actionToUrl(l, [store EXCEPT ![key(l)] =
                                  [@ EXCEPT !.results = StepsValue(RemoteSteps),
                                            !.stepsWithCount = StepsValue(RemoteSteps)]],
                           differs, store[key(l)].filters)
          ELSE IF outcome = "error"
          THEN [store EXCEPT ![key(l)].results = EmptySteps]
          ELSE store
    /\ UNCHANGED <<logicVars, aggVars, graphVars, refVars, cleanVars>>

\* setSteps on l: reducer 208 and actionToUrl 341-345
setStepsOn(l, steps, differs) ==
    /\ target' = l
    /\ store' = actionToUrl(l, [store EXCEPT ![key(l)].stepsWithCount = steps],
                            differs, store[key(l)].filters)
    /\ UNCHANGED <<logicVars, aggVars, graphVars, refVars, cleanVars>>

\* clearFunnel on l: reducers 201, 207 and actionToUrl 346-350
clearFunnelOn(l, differs) ==
    /\ target' = l
    /\ store' = actionToUrl(l, [store EXCEPT
                                   ![key(l)].filters = clearFunnelReducer(@),
                                   ![key(l)].stepsWithCount = EmptySteps],
                            differs, [insight |-> "'FUNNELS'"])
    /\ UNCHANGED <<logicVars, aggVars, graphVars, refVars, cleanVars>>

(***************************************************************************)
(* aggregateBreakdownResult applied to the inputs of AggInputs.            *)
(***************************************************************************)
SegmentsOfLength(L) ==
    {[i \in 1..L |-> Step(i - 1, f[i], <<"p1">>)] : f \in [1..L -> CountValues]}

AggSegments == UNION {SegmentsOfLength(L) : L \in 0..MaxStages}

AggInputs ==
    UNION {[last_refresh : {"t1", "t2"}, result : [1..N -> AggSegments]] : N \in 0..MaxSegments}

\* the logic as built without filters and without cached results
LogicIdle ==
    /\ now = 0
    /\ props = [filters |-> EmptyObject,
                cachedResults |-> [defined |-> FALSE, value |-> EmptySteps]]
    /\ filters = props.filters
    /\ filtersIsProps = TRUE
    /\ conversionWindowInDays = DefaultConversionWindowInDays
    /\ results = EmptySteps
    /\ resultsLoading = FALSE
    /\ stepsWithCount = EmptySteps
    /\ stepsWithCountLoading = FALSE
    /\ people = <<>>
    /\ peopleRequests = 0
    /\ calls = [c \in Calls |-> IdleCall]
    /\ latest = 0
    /\ lastEnded = 0
    /\ service = "any"
    /\ UiIdle

InitAgg ==
    /\ LogicIdle
    /\ aggIn \in AggInputs
    /\ aggOut = [computed |-> FALSE, value |-> aggregateBreakdownResult(TEST_BREAKDOWN_DATA)]
    /\ GraphIdle
    /\ RefIdle
    /\ CleanIdle

aggregate ==
    /\ ~aggOut.computed
    /\ aggOut' = [computed |-> TRUE, value |-> aggregateBreakdownResult(aggIn)]
    /\ UNCHANGED <<aggIn, logicVars, graphVars, refVars, cleanVars, keyVars>>

NextAgg == aggregate

AggSpec == InitAgg /\ [][NextAgg]_vars

(***************************************************************************)
(* FunnelBarGraph rendered for the steps and the step reference of         *)
(* GraphInputs.                                                            *)
(***************************************************************************)
GraphCounts == {0, 5}   \* counts of the steps
SliceCounts == {0, 2}   \* counts of the slices of a breakdown
Orders == {0, 1}        \* orders of the steps

Slices(order) ==
    UNION {[1..n -> {Step(order, c, <<>>) : c \in SliceCounts}] : n \in 0..MaxSegments}

\* steps without the property breakdown, and steps with a breakdown
GraphSteps ==
    {Rest(Step(o, c, <<>>), {"breakdown"}) : o \in Orders, c \in GraphCounts}
        \cup UNION {{[Step(o, c, <<>>) EXCEPT !.breakdown = b] : b \in Slices(o)} :
                       o \in Orders, c \in GraphCounts}

GraphInputs ==
    [steps : UNION {[1..n -> GraphSteps] : n \in 0..MaxStages},
     stepReference : {"total", "previous"}]

InitGraph ==
    /\ LogicIdle
    /\ AggIdle
    /\ graphIn \in GraphInputs
    /\ graphOut = [rendered |-> FALSE, steps |-> <<>>, rows |-> <<>>]
    /\ RefIdle
    /\ CleanIdle

render ==
    /\ ~graphOut.rendered
    /\ graphOut' = FunnelBarGraph(graphIn.steps, graphIn.stepReference)
    /\ UNCHANGED <<graphIn, logicVars, aggVars, refVars, cleanVars, keyVars>>

NextGraph == render

GraphSpec == InitGraph /\ [][NextGraph]_vars

(***************************************************************************)
(* getReferenceStep applied to the arguments of RefInputs.                 *)
(***************************************************************************)
RefSteps ==
    UNION {[1..n -> {Step(o, c, <<>>) : o \in Orders, c \in GraphCounts}] :
              n \in 1..MaxStages}

\* no index, and the indexes -1 .. steps.length
RefInputs ==
    {in \in [steps : RefSteps,
             stepReference : {"total", "previous"},
             index : {NoIndex} \cup {Some(i) : i \in (0 - 1)..MaxStages}] :
        in.index.value <= Len(in.steps)}

InitRef ==
    /\ LogicIdle
    /\ AggIdle
    /\ GraphIdle
    /\ refIn \in RefInputs
    /\ refOut = [computed |-> FALSE, value |-> Step(0, 0, <<>>)]
    /\ CleanIdle

referenceStep ==
    /\ ~refOut.computed
    /\ refOut' = [computed |-> TRUE,
                  value |-> getReferenceStep(refIn.steps, refIn.stepReference, refIn.index)]
    /\ UNCHANGED <<refIn, logicVars, aggVars, graphVars, cleanVars, keyVars>>

NextRef == referenceStep

RefSpec == InitRef /\ [][NextRef]_vars

(***************************************************************************)
(* cleanFunnelParams applied to the filters of FilterInputs, and to its    *)
(* own result.                                                             *)
(***************************************************************************)
MaxFields == 2   \* properties a filters object of FilterInputs has

\* per property an empty (falsy or empty-array) value and a set one
FieldValues ==
    [date_from |-> {"''", "'-90d'"},
     date_to |-> {"''", "'2021-06-01'"},
     actions |-> {"[]", "[{id: 1}]"},
     events |-> {"[]", "[{id: '$pageview'}]"},
     display |-> {"''", "'FunnelViz'"},
     interval |-> {"'minute'", "'hour'"},
     properties |-> {"[]", "[{key: 'email'}]"},
     filter_test_accounts |-> {"null", "true"},
     funnel_step |-> {"null", "2"},
     breakdown |-> {"''", "'browser'"},
     breakdown_type |-> {"''", "'event'"}]

FilterKeys == DOMAIN FieldValues

RECURSIVE ObjectsOver(_)
ObjectsOver(D) ==
    IF D = {} THEN {EmptyObject}
    ELSE LET k == CHOOSE x \in D : TRUE
         IN  {Spread(o, [x \in {k} |-> v]) :
                 o \in ObjectsOver(D \ {k}), v \in FieldValues[k]}

FilterInputs ==
    UNION {ObjectsOver(D) : D \in {E \in SUBSET FilterKeys : Cardinality(E) <= MaxFields}}

InitClean ==
    /\ LogicIdle
    /\ AggIdle
    /\ GraphIdle
    /\ RefIdle
    /\ cleanIn \in FilterInputs
    /\ cleanOut = [computed |-> FALSE, value |-> EmptyObject, again |-> EmptyObject]
    /\ intervalPolicy \in IntervalPolicies

clean ==
    /\ ~cleanOut.computed
    /\ cleanOut' = [computed |-> TRUE,
                    value |-> cleanFunnelParams(cleanIn),
                    again |-> cleanFunnelParams(cleanFunnelParams(cleanIn))]
    /\ UNCHANGED <<cleanIn, intervalPolicy, logicVars, aggVars, graphVars, refVars,
                   keyVars>>

NextClean == clean

CleanSpec == InitClean /\ [][NextClean]_vars

(***************************************************************************)
(* The logic with a single invocation of loadResults (PollSpec) and with   *)
(* up to MaxCalls overlapping invocations (Spec).                          *)
(***************************************************************************)
loadResultsOnce(refresh) ==
    /\ latest = 0
    /\ loadResults(refresh)

NextPoll ==
    \/ \E refresh \in BOOLEAN : loadResultsOnce(refresh)
    \/ \E c \in Calls : apiReject(c)
    \/ \E c \in Calls : apiResolve(c)
    \/ \E c \in Calls : waitDone(c)
    \/ \E ok \in BOOLEAN : loadPeopleDone(ok)

PollSpec == Init /\ [][NextPoll]_vars

Next ==
    \/ \E refresh \in BOOLEAN : loadResults(refresh)
    \/ \E c \in Calls : apiReject(c)
    \/ \E c \in Calls : apiResolve(c)
    \/ \E c \in Calls : waitDone(c)
    \/ \E ok \in BOOLEAN : loadPeopleDone(ok)

Spec == Init /\ [][Next]_vars

(***************************************************************************)
(* UiSpec: the logic with the actions of components and the router.        *)
(***************************************************************************)
\* payloads of setFilters: one that changes nothing, one that sets a date
SetFiltersPayloads == {EmptyObject, [date_from |-> "'-7d'"]}

\* arguments of setConversionWindowInDays and loadConversionWindow:
\* 0.4, 1.5, 7, 365.5 and NaN
DaysValues == {Finite(2, 5), Finite(3, 2), Finite(7, 1), Finite(731, 2), NaN}

NextUi ==
    \/ \E refresh \in BOOLEAN : loadResults(refresh)
    \/ \E c \in Calls : apiReject(c)
    \/ \E c \in Calls : apiResolve(c)
    \/ \E c \in Calls : waitDone(c)
    \/ \E ok \in BOOLEAN : loadPeopleDone(ok)
    \/ \E payload \in SetFiltersPayloads, refresh, mergeWithExisting \in BOOLEAN :
          setFilters(payload, refresh, mergeWithExisting)
    \/ clearFunnel

InitUi == InitWith("prompt")

UiSpec == InitUi /\ [][NextUi]_vars

(***************************************************************************)
(* FrameSpec: one loadResults and what is dispatched while it polls.       *)
(***************************************************************************)
NextFrame ==
    \/ \E refresh \in BOOLEAN : loadResultsOnce(refresh)
    \/ \E c \in Calls : apiReject(c)
    \/ \E c \in Calls : apiResolve(c)
    \/ \E c \in Calls : waitDone(c)
    \/ \E payload \in {[date_from |-> "'-7d'"]} : setFilters(payload, FALSE, TRUE)
    \/ clearFunnel
    \/ \E days \in {Finite(7, 1)} : setConversionWindowInDays(days)

\* no cached results, no breakdown: the one loadResults polls for the steps
InitFrame ==
    /\ InitUi
    /\ ~props.cachedResults.defined
    /\ props.filters = EmptyObject

FrameSpec == InitFrame /\ [][NextFrame]_vars

(***************************************************************************)
(* WindowSpec: the conversion window and the queries it starts.            *)
(***************************************************************************)
NextWindow ==
    \/ \E days \in DaysValues : setConversionWindowInDays(days)
    \/ \E days \in DaysValues : loadConversionWindow(days)
    \/ \E w \in WindowCalls : windowDone(w)

WindowSpec == InitUi /\ [][NextWindow]_vars

(***************************************************************************)
(* KeySpec: three mounted logics, one of no dashboard item and two of the  *)
(* dashboard items 1 and 2.                                                *)
(***************************************************************************)
InitKey ==
    /\ LogicIdle
    /\ AggIdle
    /\ GraphIdle
    /\ RefIdle
    /\ CleanIdle

NextKey ==
    \/ \E l \in DashboardItemIds : setFiltersOn(l, [date_from |-> "'-7d'"], TRUE)
    \/ \E l \in DashboardItemIds, outcome \in {"success", "error", "throw"},
             differs \in BOOLEAN :
          loadResultsOn(l, outcome, differs)
    \/ \E l \in DashboardItemIds, differs \in BOOLEAN :
          setStepsOn(l, StepsValue(RemoteSteps), differs)
    \/ \E l \in DashboardItemIds, differs \in BOOLEAN : clearFunnelOn(l, differs)

KeySpec == InitKey /\ [][NextKey]_vars

(***************************************************************************)
(* Properties.                                                             *)
(***************************************************************************)
\* pollFunnel of invocation c returned normally / threw
pollReturned(k) == k.pc = "done" /\ k.outcome \in {"success", "breakpoint", "throw"}
pollThrew(k) == k.pc = "done" /\ k.outcome \in {"error", "timeout"}

\* the response reports the computation as loading: the flag the poll loop reads
allLoading(k) ==
    /\ Len(k.resps) > 0
    /\ \A i \in 1..Len(k.resps) : ~k.resps[i].error /\ k.resps[i].loading

\* C1: a poll answered loading, loading, ready returns the third response after
\* exactly 3 requests, and every retry request is issued at least WAIT_SECONDS
\* after the response before it.
C1_ReadyAfterThreeRequests ==
    \A c \in Calls :
        LET k == calls[c] IN
        /\ ( /\ Len(k.resps) >= 3
             /\ ~k.resps[1].error /\ k.resps[1].loading
             /\ ~k.resps[2].error /\ k.resps[2].loading
             /\ ~k.resps[3].error /\ ~k.resps[3].loading
             /\ (Len(k.resps) = 3 => ~k.result.loading) )
           => ( /\ pollReturned(k)
                /\ Len(k.reqs) = 3
                /\ Len(k.resps) = 3
                /\ ~k.result.result.loading )
        /\ (Len(k.reqs) > 1 /\ Len(k.reqs) > Len(k.resps))
           => k.requestAt >= k.responseAt + 1

C1_Witness ==
    \E c \in Calls :
        /\ calls[c].outcome = "success"
        /\ Len(calls[c].reqs) = 3
        /\ calls[c].resps[1].loading /\ calls[c].resps[2].loading
        /\ ~calls[c].resps[3].loading
        /\ calls[c].returned = StepsValue(RemoteSteps)

\* C2: a poll whose every response is loading ends by throwing the timeout
\* error, SECONDS_TO_POLL or more after the poll's clock started.
C2_AlwaysLoadingTimesOut ==
    \A c \in Calls :
        (calls[c].pc = "done" /\ allLoading(calls[c]))
            => /\ calls[c].outcome = "timeout"
               /\ calls[c].responseAt - calls[c].start >= SECONDS_TO_POLL

\* C3: pollFunnel returns only a response that is no longer loading, and no
\* loading response is stored by setSteps or as the loader's results.
C3_NoPartialResult ==
    /\ \A c \in Calls : pollReturned(calls[c]) => ~calls[c].result.result.loading
    /\ ~stepsWithCount.loading
    /\ ~results.loading

\* C4: once every invocation has ended, and some invocation was superseded
\* while it polled, results and stepsWithCount are those of the newest one.
C4_OnlyNewestOutcome ==
    ( /\ latest >= 2
      /\ \A c \in 1..latest : calls[c].pc = "done"
      /\ \E a \in 1..latest : calls[a].superseded )
    => /\ results = calls[latest].returned
       /\ calls[latest].outcome = "success" => stepsWithCount = calls[latest].returned

\* C5: only the first request of a poll can carry refresh=true, it does so
\* exactly when params.refresh is true, and no request body has `refresh`.
C5_RefreshOnlyOnFirstRequest ==
    \A c \in Calls :
        LET k == calls[c] IN
        /\ Len(k.reqs) > 0 => (k.reqs[1].refresh <=> Truthy(Get(k.params, "refresh")))
        /\ \A i \in 1..Len(k.reqs) :
              /\ i > 1 => ~k.reqs[i].refresh
              /\ "refresh" \notin DOMAIN k.reqs[i].body

C5_Witness ==
    \E c \in Calls :
        /\ calls[c].refresh
        /\ Len(calls[c].reqs) >= 2
        /\ calls[c].reqs[1].refresh
        /\ ~calls[c].reqs[2].refresh

\* C6: no request of a poll is issued SECONDS_TO_POLL or more after the first
\* request of that poll.
C6_NoRequestAfterTimeout ==
    \A c \in Calls :
        Len(calls[c].reqs) > 0
            => calls[c].requestAt - calls[c].firstRequestAt < SECONDS_TO_POLL

\* C7: a remote error is the last response of its poll: no request follows it,
\* and loadResults ends through its catch block with an empty step list.
C7_RemoteErrorEndsPoll ==
    \A c \in Calls :
        LET k == calls[c] IN
        \A i \in 1..Len(k.resps) :
            k.resps[i].error
                => /\ i = Len(k.resps)
                   /\ Len(k.reqs) = i
                   /\ k.pc = "done"
                   /\ k.outcome = "error"
                   /\ k.endQuery = "error"
                   /\ k.reported = "false"
                   /\ k.returned = EmptySteps
                   /\ (lastEnded = c => results = EmptySteps)

C7_Witness ==
    \E c \in Calls :
        /\ Len(calls[c].resps) >= 2
        /\ calls[c].resps[1].loading
        /\ calls[c].resps[Len(calls[c].resps)].error
        /\ calls[c].outcome = "error"
        /\ lastEnded = c

\* C8: after a poll has ended in a timeout or a remote error, the state of
\* the logic differs from the state a ready result with zero steps leaves.
LooksReadyAndEmpty ==
    /\ results = EmptySteps
    /\ ~resultsLoading
    /\ stepsWithCount = EmptySteps
    /\ ~stepsWithCountLoading

C8_FailureDistinguishable ==
    (lastEnded # 0 /\ pollThrew(calls[lastEnded])) => ~LooksReadyAndEmpty

\* C9: for N >= 1 segments of equal length L the aggregation has L steps;
\* step i counts the sum of the segments' stage-i counts and its breakdown is
\* the segments' stage-i steps in input order.
RECURSIVE sumFrom(_, _, _)
sumFrom(segs, i, k) ==
    IF k > Len(segs) THEN 0 ELSE segs[k][i].count + sumFrom(segs, i, k + 1)

RECURSIVE sumCounts(_, _)
sumCounts(steps, k) ==
    IF k > Len(steps) THEN 0 ELSE steps[k].count + sumCounts(steps, k + 1)

equalLength(segs) ==
    /\ Len(segs) > 0
    /\ \A k \in 1..Len(segs) : Len(segs[k]) = Len(segs[1])

C9_AggregationSumsSegments ==
    (aggOut.computed /\ equalLength(aggIn.result))
        => LET segs == aggIn.result
               out == aggOut.value
           IN  /\ ~out.threw
               /\ Len(out.result) = Len(segs[1])
               /\ \A i \in 1..Len(segs[1]) :
                     /\ out.result[i].count = sumFrom(segs, i, 1)
                     /\ Len(out.result[i].breakdown) = Len(segs)
                     /\ \A k \in 1..Len(segs) : out.result[i].breakdown[k] = segs[k][i]
                     /\ sumCounts(out.result[i].breakdown, 1) = out.result[i].count

C9_Witness ==
    /\ aggOut.computed
    /\ Len(aggIn.result) = 2
    /\ Len(aggIn.result[1]) = 2 /\ Len(aggIn.result[2]) = 2
    /\ aggIn.result[1][1].count = 5 /\ aggIn.result[2][1].count = 1
    /\ aggOut.value.result[1].count = 6

\* C10: the steps a successful loadResults stores are the aggregation of the
\* segments the remote service returned when the query has a breakdown, and
\* the remote result itself when it has none.
C10_StoredStepsFollowRemote ==
    \A c \in Calls :
        (lastEnded = c /\ calls[c].outcome = "success")
            => LET k == calls[c]
                   expected ==
                       IF Truthy(Get(k.params, "breakdown"))
                       THEN StepsValue(aggregateBreakdownResult(
                                [last_refresh |-> "t1",
                                 result |-> k.result.result.segments]).result)
                       ELSE k.result.result
               IN  stepsWithCount = expected /\ results = expected

\* C11: when the segments do not all have the number of stages of the first
\* one (some segment is shorter or longer), the aggregation ends in an error
\* and never in a merged result.
unequalLength(segs) ==
    /\ Len(segs) > 0
    /\ \E k \in 1..Len(segs) : Len(segs[k]) # Len(segs[1])

C11_MismatchIsAggregationError ==
    (aggOut.computed /\ unequalLength(aggIn.result)) => aggOut.value.threw

\* C12: the aggregation of an empty segment list raises no error, has no
\* steps and keeps the other fields of the response (last_refresh).
C12_EmptyListAggregatesToEmpty ==
    (aggOut.computed /\ Len(aggIn.result) = 0)
        => /\ ~aggOut.value.threw
           /\ aggOut.value.result = <<>>
           /\ aggOut.value.last_refresh = aggIn.last_refresh

C12_Witness ==
    /\ aggOut.computed
    /\ aggIn.result = <<>>
    /\ aggIn.last_refresh = "t2"
    /\ aggOut.value.last_refresh = "t2"
    /\ aggOut.value.result = <<>>

\* C13: a percentage taken of a basis count of 0 is exactly 0, whatever the
\* count it is taken for: every bar of the graph whose basis step counts 0
\* shows 0.
C13_ZeroBasisIsZeroPercent ==
    graphOut.rendered
        => \A r \in 1..Len(graphOut.rows) :
              LET row == graphOut.rows[r] IN
              row.basisCount = 0
                  => /\ row.barRendered => row.bar.percentage = Zero
                     /\ \A k \in 1..Len(row.slices) : row.slices[k].percentage = Zero

\* C14: getReferenceStep returns the first step when the reference is total,
\* for every index >= 0; the step before the index when the reference is
\* previous and the index is >= 1; and the first step when the index is 0,
\* negative or not given, whatever the reference.
C14_ReferenceStep ==
    refOut.computed
        => LET steps == refIn.steps
               index == refIn.index
           IN  /\ (refIn.stepReference = "total" /\ index.defined /\ index.value >= 0)
                      => refOut.value = steps[1]
               /\ (refIn.stepReference = "previous" /\ index.defined /\ index.value >= 1)
                      => refOut.value = steps[index.value]
               /\ (~index.defined \/ index.value <= 0)
                      => refOut.value = steps[1]

C14_Witness ==
    /\ refOut.computed
    /\ refIn.stepReference = "previous"
    /\ refIn.index = Some(2)
    /\ Len(refIn.steps) = 2
    /\ refIn.steps[1].count = 5 /\ refIn.steps[2].count = 0
    /\ refOut.value = refIn.steps[2]

\* C15: the steps are rendered in the order of their `order`; the drop-off
\* count of a step is the count of the step before it minus its own count;
\* the drop-off count and rate are shown (in the footer, in the popover of
\* the bar) only when the order of the step is not 0 and the drop-off count
\* is greater than 0, so a step of order 0 never shows a drop-off.
dropoffShown(row) ==
    row.footerDropoff \/ (row.barRendered /\ row.bar.dropoffVisible)

C15_DropoffOnlyAfterFirstOrder ==
    graphOut.rendered
        => LET steps == graphOut.steps
               rows == graphOut.rows
           IN  /\ Len(rows) = Len(graphIn.steps)
               /\ \A r \in 1..Len(rows) :
                     /\ r > 1 => steps[r - 1].order <= steps[r].order
                     /\ rows[r].dropoffCount =
                            (IF r > 1 THEN steps[r - 1].count ELSE steps[r].count)
                                - steps[r].count
                     /\ dropoffShown(rows[r])
                            => (steps[r].order # 0 /\ rows[r].dropoffCount > 0)
                     /\ steps[r].order = 0 => ~dropoffShown(rows[r])
                     /\ rows[r].bar.dropoffVisible
                            <=> (steps[r].order # 0 /\ rows[r].dropoffCount > 0)

C15_Witness ==
    /\ graphOut.rendered
    /\ Len(graphOut.rows) = 2
    /\ graphOut.steps[1].count = 5 /\ graphOut.steps[2].count = 0
    /\ graphOut.steps[2].order = 1
    /\ graphOut.rows[2].dropoffCount = 5
    /\ graphOut.rows[2].barRendered
    /\ graphOut.rows[2].bar.dropoffVisible
    /\ graphOut.rows[2].footerDropoff

\* C16: the slice at position k of the breakdown of a step takes its
\* previous count from the slice at position k of the step before it, 0 when
\* that step has no such slice or no breakdown; its drop-off count is that
\* count minus its own, its rates from the previous step are taken of that
\* count, and its drop-off is visible exactly when the order of the step is
\* not 0 and its drop-off count is positive.
slicePreviousOf(steps, r, k) ==
    LET previous == IF r > 1 THEN steps[r - 1] ELSE steps[r]
    IN  IF "breakdown" \in DOMAIN previous /\ k <= Len(previous.breakdown)
        THEN previous.breakdown[k].count
        ELSE 0

C16_SliceDropoffFromSamePosition ==
    graphOut.rendered
        => \A r \in 1..Len(graphOut.rows) :
              \A k \in 1..Len(graphOut.rows[r].slices) :
                 LET step == graphOut.steps[r]
                     slice == graphOut.rows[r].slices[k]
                     count == step.breakdown[k].count
                     previousCount == slicePreviousOf(graphOut.steps, r, k)
                 IN  /\ Len(graphOut.rows[r].slices) = Len(step.breakdown)
                     /\ slice.previousCount = previousCount
                     /\ slice.dropoffCount = previousCount - count
                     /\ previousCount > 0
                            => /\ slice.conversionRateFromPrevious.kind = "finite"
                               /\ slice.conversionRateFromPrevious.num * previousCount
                                      = 100 * count * slice.conversionRateFromPrevious.den
                               /\ slice.dropoffRateFromPrevious.kind = "finite"
                               /\ slice.dropoffRateFromPrevious.num * previousCount
                                      = 100 * (previousCount - count)
                                            * slice.dropoffRateFromPrevious.den
                     /\ slice.dropoffVisible
                            <=> (step.order # 0 /\ previousCount - count > 0)

C16_Witness ==
    /\ graphOut.rendered
    /\ Len(graphOut.rows) = 2
    /\ graphOut.steps[2].order = 1
    /\ "breakdown" \in DOMAIN graphOut.steps[1]
    /\ Len(graphOut.steps[1].breakdown) = 1
    /\ graphOut.steps[1].breakdown[1].count = 2
    /\ Len(graphOut.rows[2].slices) = 2
    /\ graphOut.rows[2].slices[1].count = 0
    /\ graphOut.rows[2].slices[1].dropoffCount = 2
    /\ graphOut.rows[2].slices[1].dropoffVisible
    /\ graphOut.rows[2].slices[2].count = 2
    /\ graphOut.rows[2].slices[2].previousCount = 0
    /\ ~graphOut.rows[2].slices[2].dropoffVisible

\* C17: the breakdownMaxIndex of a step is the highest index of a slice of
\* its breakdown with a nonzero count, and is undefined when the step has no
\* breakdown, an empty one, or one whose slices all count 0.
nonZeroSlices(step) ==
    IF "breakdown" \in DOMAIN step
    THEN {k \in 1..Len(step.breakdown) : step.breakdown[k].count # 0}
    ELSE {}

C17_LastNonZeroSlice ==
    graphOut.rendered
        => \A r \in 1..Len(graphOut.rows) :
              LET nonZero == nonZeroSlices(graphOut.steps[r])
                  maxIndex == graphOut.rows[r].breakdownMaxIndex
              IN  IF nonZero = {}
                  THEN ~maxIndex.defined
                  ELSE /\ maxIndex.defined
                       /\ maxIndex.value + 1 \in nonZero
                       /\ \A k \in nonZero : k <= maxIndex.value + 1

C17_Witness ==
    /\ graphOut.rendered
    /\ Len(graphOut.rows) = 2
    /\ "breakdown" \in DOMAIN graphOut.steps[1]
    /\ Len(graphOut.steps[1].breakdown) = 2
    /\ graphOut.steps[1].breakdown[1].count = 2
    /\ graphOut.steps[1].breakdown[2].count = 0
    /\ graphOut.rows[1].breakdownMaxIndex = Some(0)
    /\ "breakdown" \notin DOMAIN graphOut.steps[2]
    /\ ~graphOut.rows[2].breakdownMaxIndex.defined

EmptyValues == {"''", "[]", "null"}

OmittedKeys ==
    {"date_from", "date_to", "actions", "events", "display", "properties",
     "filter_test_accounts", "funnel_step"}

C19_EmptyFieldsOmitted ==
    cleanOut.computed
        => \A k \in OmittedKeys :
              (k \in DOMAIN cleanIn /\ cleanIn[k] \in EmptyValues)
                  => cleanOut.value = cleanFunnelParams(Rest(cleanIn, {k}))

\* C20: the cleaned filters have a breakdown exactly when they have a
\* breakdown_type.
C20_BreakdownOnlyAsPair ==
    cleanOut.computed
        => (Truthy(Get(cleanOut.value, "breakdown"))
               <=> Truthy(Get(cleanOut.value, "breakdown_type")))

\* C21: a loadResults without refresh returns the cached results and issues
\* no request whenever the current filters equal, property by property, the
\* filters the cached results were computed for; with refresh it always
\* issues a request.
C21_CachedWheneverFiltersEqual ==
    latest > 0 =>
        /\ (~calls[latest].refresh /\ props.cachedResults.defined
              /\ filters = props.filters
            => calls[latest].outcome = "cached" /\ Len(calls[latest].reqs) = 0)
        /\ (calls[latest].refresh
            => calls[latest].outcome # "cached" /\ Len(calls[latest].reqs) > 0)

\* C22: every request of one poll carries the same body, the one fixed when
\* loadResults started; a setFilters, setConversionWindowInDays or
\* clearFunnel dispatched while the poll is in flight changes no retry.
C22_RequestsCarryOneBody ==
    \A c \in Calls :
        \A i \in 1..Len(calls[c].reqs) :
            /\ calls[c].reqs[i].body = bodyParams(calls[c].params)
            /\ calls[c].reqs[i].body = calls[c].reqs[1].body

\* a retry was issued after the filters and the conversion window changed
C22_Witness ==
    \E c \in Calls :
        /\ Len(calls[c].reqs) >= 2
        /\ calls[c].reqs[Len(calls[c].reqs)].body
              # bodyParams(loadResultsParamsOf(filters, conversionWindowInDays, FALSE))
        /\ calls[c].reqs[Len(calls[c].reqs)].body["funnel_window_days"]
              # conversionWindowInDays
        /\ calls[c].firstRequestAt <= lastDispatch.at
        /\ lastDispatch.at < calls[c].requestAt

\* the step is the dispatch of the action a
dispatches(a) ==
    lastDispatch'.seq # lastDispatch.seq /\ lastDispatch'.action = a

\* C23: clearFunnel resets the instance to its initial empty state: after it
\* stepsWithCount, results and people are empty, stepsWithCountLoading is
\* false and filters holds nothing but new_entity.
C23_ClearFunnelResets ==
    [][dispatches("clearFunnel") =>
          /\ stepsWithCount' = EmptySteps
          /\ results' = EmptySteps
          /\ people' = <<>>
          /\ ~stepsWithCountLoading'
          /\ DOMAIN filters' \subseteq {"new_entity"}]_vars

\* days lies between 1 and 365, for a JS number
daysInRange(days) ==
    days.kind = "finite" /\ days.den <= days.num /\ days.num <= 365 * days.den

\* r is an integer nearest to days
nearest(r, days) ==
    /\ 2 * (r * days.den - days.num) <= days.den
    /\ 2 * (days.num - r * days.den) <= days.den

\* C24: conversionWindowInDays is an integer between 1 and 365 in every
\* reachable state; it starts at 14; setConversionWindowInDays(days) stores the rounded value
\* when 1 <= days <= 365 and changes nothing otherwise; the first request of
\* every query carries the value of the moment as funnel_window_days, and
\* every request carries a value between 1 and 365.
C24_WindowBetween1And365 ==
    /\ [](conversionWindowInDays \in 1..365)
    /\ [](lastDispatch.seq = 0 => conversionWindowInDays = 14)
    /\ [](\A c \in Calls : \A i \in 1..Len(calls[c].reqs) :
             calls[c].reqs[i].body["funnel_window_days"] \in 1..365)
    /\ [][dispatches("setConversionWindowInDays") =>
             IF daysInRange(lastDispatch'.days)
             THEN nearest(conversionWindowInDays', lastDispatch'.days)
             ELSE conversionWindowInDays' = conversionWindowInDays]_vars
    /\ [][\A c \in Calls :
             calls[c].pc = "idle" /\ calls'[c].pc = "request" =>
                calls'[c].reqs[1].body["funnel_window_days"]
                   = conversionWindowInDays']_vars

\* a query carries 2 days, the rounded 1.5 of a loadConversionWindow, after a
\* setConversionWindowInDays(365.5) that was refused
C24_Witness ==
    /\ \E c \in Calls :
          /\ Len(calls[c].reqs) > 0
          /\ calls[c].reqs[1].body["funnel_window_days"] = 2
    /\ \E w \in WindowCalls :
          windowCalls[w].pc = "done" /\ windowCalls[w].days = Finite(3, 2)
    /\ lastDispatch.action = "setConversionWindowInDays"
    /\ lastDispatch.days = Finite(731, 2)
    /\ conversionWindowInDays = 2

\* C25: every query that loadResults started (startQuery) has been ended
\* (endQuery) for the same queryId when its invocation is over, whether the
\* poll succeeded, failed, timed out or was superseded by a newer
\* loadResults; reportFunnelCalculated was called once, with success = true
\* iff pollFunnel returned.
C25_StartedQueryIsEnded ==
    \A c \in Calls :
        calls[c].pc = "done" /\ calls[c].outcome # "cached" =>
            /\ calls[c].endQuery # "none"
            /\ calls[c].reported = IF pollThrew(calls[c]) THEN "false" ELSE "true"

\* C27: stepsWithCountLoading does not stay true: once the newest loadResults
\* is over, by the cached-results shortcut, a successful poll, a remote error
\* or a timeout, and nothing is in flight any more, stepsWithCountLoading is
\* false.
C27_LoadingEndsWithTheQuery ==
    (/\ latest > 0
     /\ calls[latest].pc = "done"
     /\ \A c \in Calls : ~Pending(calls[c]))
    => ~stepsWithCountLoading

\* C28: after clearFunnel stepsWithCount stays empty until a new query is
\* started: a poll that was in flight when clearFunnel was dispatched does
\* not put the steps of the discarded query back.
C28_ClearedStaysEmpty ==
    (lastDispatch.action = "clearFunnel" /\ latest = lastDispatch.call)
    => stepsWithCount = EmptySteps

\* C29: a setFilters dispatched with refresh = true starts a query whose
\* first request carries refresh=true.
C29_RefreshReachesTheFirstRequest ==
    (lastDispatch.action = "setFilters" /\ lastDispatch.refresh) =>
        /\ Len(calls[lastDispatch.call].reqs) > 0
        /\ calls[lastDispatch.call].reqs[1].refresh

\* C30: loadConversionWindow is debounced by one second: an invocation that
\* is followed by another one less than a second later neither calls
\* setConversionWindowInDays nor starts loadResults and changes no state;
\* a query is started only by an invocation whose debounce passed, which
\* also stores its days.
C30_OnlyTheLastWindowLoads ==
    /\ [](\A w, v \in WindowCalls :
             (/\ w < v
              /\ windowCalls[v].pc # "idle"
              /\ windowCalls[v].due < windowCalls[w].due + DebounceSeconds)
             => windowCalls[w].pc \in {"wait", "cut"})
    /\ [](latest = Cardinality({w \in WindowCalls : windowCalls[w].pc = "done"}))
    /\ []((windowLatest > 0 /\ \A w \in WindowCalls : windowCalls[w].pc # "wait")
             => windowCalls[windowLatest].pc = "done")
    /\ [][\A w \in WindowCalls :
             windowCalls[w].pc = "wait" /\ windowCalls'[w].pc = "cut" =>
                UNCHANGED <<props, filters, filtersIsProps, conversionWindowInDays,
                            results, resultsLoading, stepsWithCount,
                            stepsWithCountLoading, people, peopleRequests,
                            calls, latest, lastEnded>>]_vars
    /\ [][\A w \in WindowCalls :
             windowCalls[w].pc = "wait" /\ windowCalls'[w].pc = "done" =>
                /\ latest' = latest + 1
                /\ daysInRange(windowCalls[w].days)
                      => nearest(conversionWindowInDays', windowCalls[w].days)]_vars

\* of two loadConversionWindow dispatched at the same moment the first was
\* cut and the second stored its days and started the only query
C30_Witness ==
    /\ windowLatest = 2
    /\ windowCalls[1].pc = "cut"
    /\ windowCalls[2].pc = "done"
    /\ windowCalls[1].due = windowCalls[2].due
    /\ windowCalls[1].days = Finite(7, 1)
    /\ windowCalls[2].days = Finite(3, 2)
    /\ conversionWindowInDays = 2
    /\ latest = 1

\* the state kept for the logic of dashboard item l (of no item: "undefined")
instanceOf(st, l) == st[key(l)]

\* C26: logics with different keys are isolated: setFilters, loadResults
\* with its success, failure and aggregation-error ends, setSteps and
\* clearFunnel dispatched on one logic leave filters, results and
\* stepsWithCount of the logics of every other dashboard item unchanged.
C26_KeysAreIsolated ==
    [][\A l \in DashboardItemIds :
          l # target' =>
             /\ instanceOf(store', l).filters = instanceOf(store, l).filters
             /\ instanceOf(store', l).results = instanceOf(store, l).results
             /\ instanceOf(store', l).stepsWithCount
                   = instanceOf(store, l).stepsWithCount]_vars

\* the logic of dashboard item 1 holds steps, the logic of no dashboard item
\* has filters and was just cleared, the logic of dashboard item 2 still has
\* its defaults
C26_Witness ==
    /\ target = "undefined"
    /\ "new_entity" \in DOMAIN instanceOf(store, "undefined").filters
    /\ instanceOf(store, "1").stepsWithCount = StepsValue(RemoteSteps)
    /\ instanceOf(store, "1").filters = [date_from |-> "'-7d'"]
    /\ instanceOf(store, "2") = IdleInstance

====
